---- MODULE Spec2Model ----
(***************************************************************************)
(* Model of three parts of SMQTK:                                          *)
(*   - bin/scripts/train_itq.py: main() selects the identifiers, extracts  *)
(*     the descriptors through parallel.parallel_map and fits the ITQ      *)
(*     functor on them;                                                    *)
(*   - representation/classification_element: ClassificationElement        *)
(*     equality, max_label and the base set_classification;                *)
(*   - the fitting engine's failure conditions.                            *)
(* Strings are sequences of one-character strings, so that str.strip and   *)
(* the line iteration of a file are computed, not assumed.                 *)
(***************************************************************************)
EXTENDS Bags, FiniteSets, Integers, Sequences, TLC

\* ------------------------------------------------------------------ bounds
MaxFileLen == 4
MaxCores == 2
MaxBits == 2
MaxDim == 2
MaxFitBits == 3
MaxFitDim == 3

\* ------------------------------------------------------- strings and files
Chars == {"a", " ", "\n"}

Whitespace == {" ", "\n"}

RECURSIVE SeqsUpTo(_, _)
SeqsUpTo(S, n) ==
    IF n = 0 THEN {<<>>}
    ELSE LET shorter == SeqsUpTo(S, n - 1)
         IN  shorter \cup {Append(s, c) : s \in {t \in shorter : Len(t) = n - 1}, c \in S}

\* the keys a descriptor index of the model may hold, in iteration order
KeyUniverse == << <<>>, <<"a">>, <<"a", "a">> >>

RECURSIVE LStrip(_)
LStrip(s) ==
    IF s = <<>> THEN s
    ELSE IF Head(s) \in Whitespace THEN LStrip(Tail(s)) ELSE s

RECURSIVE RStrip(_)
RStrip(s) ==
    IF s = <<>> THEN s
    ELSE IF s[Len(s)] \in Whitespace THEN RStrip(SubSeq(s, 1, Len(s) - 1)) ELSE s

\* str.strip(): surrounding whitespace removed
Strip(s) == RStrip(LStrip(s))

\* "for l in f": the lines of a text file, each with its terminating newline;
\* a last line without newline is yielded as it is, an empty file yields none
RECURSIVE ReadLines(_, _)
ReadLines(rest, cur) ==
    IF rest = <<>> THEN (IF cur = <<>> THEN <<>> ELSE <<cur>>)
    ELSE IF Head(rest) = "\n"
         THEN <<Append(cur, "\n")>> \o ReadLines(Tail(rest), <<>>)
         ELSE ReadLines(Tail(rest), Append(cur, Head(rest)))

\* ------------------------------------------------------------------- state
VARIABLES
    uuids_list_filepath,  \* config['uuids_list_filepath']: [isNone, path]
    fs_file,              \* what the file system holds at the path "list.txt"
    descriptor_index,     \* the keys stored in the DescriptorIndex
    dim,                  \* dimension of the stored descriptor vectors
    vec_kind,             \* "ok", "nonfinite" or "degenerate" vectors
    bit_length,           \* config['itq_config']: bit length of the functor
    cores,                \* config['parallel']['index_load_cores']
    pc,                   \* position of main()
    iter_source,          \* which uuids_iter was defined: "file" or "index"
    ids,                  \* what uuids_iter() yields
    next_i,               \* next position of ids to hand to a worker
    worker,               \* per worker: position of ids in flight, 0 if idle
    results,              \* results merged so far
    aborted,              \* a worker failed
    issued,               \* positions of ids for which a fetch was issued
    discarded,            \* number of in-flight results dropped after abort
    fit_called,           \* functor.fit was invoked
    fit_arg,              \* the descriptors functor.fit received
    outcome,              \* how main() ended
    elems,                \* the ClassificationElement objects
    ret                   \* the last method call on an element and its result

cfgvars == <<uuids_list_filepath, fs_file, descriptor_index, dim, vec_kind,
             bit_length, cores>>
poolvars == <<next_i, worker, results, aborted, issued, discarded>>
mainvars == <<pc, iter_source, ids, fit_called, fit_arg, outcome>>
cevars == <<elems, ret>>
vars == <<cfgvars, poolvars, mainvars, cevars>>

\* ----------------------------------------------------------- train_itq.py
PathNone == [isNone |-> TRUE, path |-> ""]
PathEmpty == [isNone |-> FALSE, path |-> ""]
PathList == [isNone |-> FALSE, path |-> "list.txt"]

\* os.path.isfile(p)
IsFile(p) == p.path = "list.txt" /\ fs_file.isfile

\* the condition of main()'s if: a truthy path that names an existing file
UseListFile_NoIsFile(p) == ~p.isNone /\ p.path # ""
UseListFile(p) == ~p.isNone /\ p.path # "" /\ IsFile(p)

\* uuids_iter of the first branch: every line of the file, stripped
uuids_iter_file_skipblank(content) ==
    LET lines == ReadLines(content, <<>>)
        stripped == [i \in 1..Len(lines) |-> Strip(lines[i])]
    IN  SelectSeq(stripped, LAMBDA u : u # <<>>)
uuids_iter_file(content) ==
    LET lines == ReadLines(content, <<>>)
    IN  [i \in 1..Len(lines) |-> Strip(lines[i])]

\* uuids_iter of the second branch: descriptor_index.iterkeys()
uuids_iter_index(keys) == SelectSeq(KeyUniverse, LAMBDA u : u \in keys)

\* DescriptorIndex.get_descriptor: the stored element, KeyError if absent
get_descriptor(keys, uuid) ==
    IF uuid \in keys THEN [ok |-> TRUE, value |-> [uuid |-> uuid, dim |-> dim]]
    ELSE [ok |-> FALSE, value |-> "KeyError"]

\* extract_element(uuid)
extract_element_first(uuid) == get_descriptor(descriptor_index, ids[1])
extract_element(uuid) == get_descriptor(descriptor_index, uuid)

\* main() after parallel_map: an exception propagates out of main, otherwise
\* the next statement is functor.fit(element_iter)
AfterExtract_Swallow(raised) == "fit"
AfterExtract(raised) == IF raised THEN "failed" ELSE "fit"

Idle == [w \in 1..cores |-> 0]

MainStart ==
    /\ pc = "init"
    /\ IF UseListFile(uuids_list_filepath)
       THEN /\ iter_source' = "file"
            /\ ids' = uuids_iter_file(fs_file.content)
       ELSE /\ iter_source' = "index"
            /\ ids' = uuids_iter_index(descriptor_index)
    /\ pc' = "extract"
    /\ UNCHANGED <<cfgvars, poolvars, fit_called, fit_arg, outcome, cevars>>

\* ------------------------------------------------- parallel.parallel_map
\* A free worker takes the next identifier; nothing is handed out once a
\* worker has failed.
MayIssue_AfterAbort(w) == worker[w] = 0 /\ next_i <= Len(ids)
MayIssue(w) == worker[w] = 0 /\ next_i <= Len(ids) /\ ~aborted

Issue(w) ==
    /\ pc = "extract"
    /\ MayIssue(w)
    /\ worker' = [worker EXCEPT ![w] = next_i]
    /\ next_i' = next_i + 1
    /\ issued' = issued \cup {next_i}
    /\ UNCHANGED <<cfgvars, results, aborted, discarded, mainvars, cevars>>

\* What a finished fetch does to the merged results: a success is kept
\* unless the pipeline was aborted meanwhile, a failure keeps nothing.
Merge(res, isAborted, r) ==
    IF r.ok /\ ~isAborted THEN Append(res, r.value) ELSE res

\* A worker finishes the fetch it has in flight.
Complete(w) ==
    /\ pc = "extract"
    /\ worker[w] # 0
    /\ LET r == extract_element(ids[worker[w]])
       IN  /\ results' = Merge(results, aborted, r)
           /\ aborted' = (aborted \/ ~r.ok)
           /\ discarded' = IF aborted /\ r.ok THEN discarded + 1 ELSE discarded
    /\ worker' = [worker EXCEPT ![w] = 0]
    /\ UNCHANGED <<cfgvars, next_i, issued, mainvars, cevars>>

\* parallel_map is over: every worker is idle and either all identifiers
\* were fetched or a worker failed; a failure is raised to main().
PoolFinish ==
    /\ pc = "extract"
    /\ \A w \in 1..cores : worker[w] = 0
    /\ aborted \/ next_i > Len(ids)
    /\ pc' = AfterExtract(aborted)
    /\ outcome' = IF aborted THEN "LookupError" ELSE outcome
    /\ UNCHANGED <<cfgvars, poolvars, iter_source, ids, fit_called, fit_arg, cevars>>

\* ------------------------------------------------------- ItqFunctor.fit
\* The ways fit can end on N vectors of dimension d with bit length k.
\* Non-finite values are rejected before fitting starts; the order in which
\* the other failure conditions are detected is not fixed.
FitOutcomes_NoDimCheck(N, d, k, kind) ==
    IF kind = "nonfinite" /\ N > 0 THEN {"ValidationError"}
    ELSE IF N < k \/ (kind = "degenerate" /\ N > 0)
         THEN {"InsufficientDataError"} ELSE {"model"}
FitOutcomes(N, d, k, kind) ==
    IF kind = "nonfinite" /\ N > 0 THEN {"ValidationError"}
    ELSE LET errs == (IF k > d THEN {"ConfigurationError"} ELSE {})
                     \cup (IF N < k \/ (kind = "degenerate" /\ N > 0)
                           THEN {"InsufficientDataError"} ELSE {})
         IN  IF errs = {} THEN {"model"} ELSE errs

\* functor.fit(element_iter), the last statement of main()
FitCall ==
    /\ pc = "fit"
    /\ fit_called' = TRUE
    /\ fit_arg' = results
    /\ \E o \in FitOutcomes(Len(results), dim, bit_length, vec_kind) :
          /\ outcome' = o
          /\ pc' = IF o = "model" THEN "done" ELSE "failed"
    /\ UNCHANGED <<cfgvars, poolvars, iter_source, ids, cevars>>

\* ------------------------------------------------ ClassificationElement
\* float('-inf'); confidences are 0 and 1, the ends of the range [0, 1]
NEG_INF == -1
Confs == {0, 1}

\* the Python object None used as a label, next to two string labels
PyNone == "None"
Labels == {"cat", "dog", PyNone}
\* labels that can be given as keyword arguments
KwLabels == {"cat"}

EmptyMap == [l \in {} |-> 0]
MapsOver(L) == UNION {[D -> Confs] : D \in SUBSET L}

\* the values __eq__ compares: None, or a dict
NoneValue == [none |-> TRUE]
DictValue(m) == [none |-> FALSE, dict |-> m]

\* get_classification(): the map, NoClassificationError if none is set
get_classification(e) ==
    IF e.has THEN [raised |-> FALSE, value |-> e.map]
    ELSE [raised |-> TRUE, value |-> EmptyMap]

\* ClassificationElement.__eq__
Eq_WithUuid(self, other) ==
    IF other.isCE
    THEN LET ga == get_classification(self)
             gb == get_classification(other)
             a == IF ga.raised THEN NoneValue ELSE DictValue(ga.value)
             b == IF gb.raised THEN NoneValue ELSE DictValue(gb.value)
         IN  a = b /\ self.uuid = other.uuid
    ELSE FALSE
Eq(self, other) ==
    IF other.isCE
    THEN LET ga == get_classification(self)
             gb == get_classification(other)
             a == IF ga.raised THEN NoneValue ELSE DictValue(ga.value)
             b == IF gb.raised THEN NoneValue ELSE DictValue(gb.value)
         IN  a = b
    ELSE FALSE

\* ClassificationElement.__ne__
Ne(self, other) == ~Eq(self, other)

\* the loop of max_label over the items in iteration order, m the temp tuple
RECURSIVE MaxLoop(_, _, _)
MaxLoop(map, order, m) ==
    IF order = <<>> THEN m
    ELSE LET i == <<Head(order), map[Head(order)]>>
         IN  MaxLoop(map, Tail(order), IF i[2] > m[2] THEN i ELSE m)

\* ClassificationElement.max_label, the items iterated in the given order
max_label(e, order) ==
    LET g == get_classification(e)
    IN  IF g.raised THEN [raised |-> TRUE, value |-> PyNone]
        ELSE LET m == MaxLoop(g.value, order, <<PyNone, NEG_INF>>)
             IN  IF m[1] = PyNone THEN [raised |-> TRUE, value |-> PyNone]
                 ELSE [raised |-> FALSE, value |-> m[1]]

\* dict.update
Update(m, kwds) ==
    [l \in DOMAIN m \cup DOMAIN kwds |-> IF l \in DOMAIN kwds THEN kwds[l] ELSE m[l]]

\* the base set_classification(m, **kwds); m is [isNone, map]
set_classification_mFirst(m, kwds) ==
    LET agg == Update(kwds, IF m.isNone THEN EmptyMap ELSE m.map)
    IN  IF DOMAIN agg = {} THEN [raised |-> TRUE, value |-> EmptyMap]
        ELSE [raised |-> FALSE, value |-> agg]
set_classification(m, kwds) ==
    LET m0 == IF m.isNone \/ DOMAIN m.map = {} THEN EmptyMap ELSE m.map
        agg == Update(m0, kwds)
    IN  IF DOMAIN agg = {} THEN [raised |-> TRUE, value |-> EmptyMap]
        ELSE [raised |-> FALSE, value |-> agg]

Perms(S) ==
    {p \in [1..Cardinality(S) -> S] : \A i, j \in 1..Cardinality(S) : p[i] = p[j] => i = j}

ElemIds == {1, 2}

\* what an element is compared with: an element, a plain dict holding the
\* same map, or None
Others(i) ==
    {elems[j] : j \in ElemIds}
    \cup {[isCE |-> FALSE, type_name |-> "dict", uuid |-> 0,
           has |-> elems[i].has, map |-> elems[i].map],
          [isCE |-> FALSE, type_name |-> "NoneType", uuid |-> 0,
           has |-> FALSE, map |-> EmptyMap]}

\* an implementing class calls the base method and stores the returned map,
\* overwriting the whole mapping
SetClassificationCall(i, m, kwds) ==
    LET r == set_classification(m, kwds)
    IN  /\ elems' = IF r.raised THEN elems
                    ELSE [elems EXCEPT ![i].has = TRUE, ![i].map = r.value]
        /\ ret' = [op |-> "set_classification", e |-> i, m |-> m, kwds |-> kwds,
                   raised |-> r.raised, value |-> r.value]
        /\ UNCHANGED <<cfgvars, poolvars, mainvars>>

\* a == other and a != other
EqCall(i, other) ==
    /\ ret' = [op |-> "eq", e |-> i, other |-> other,
               eq |-> Eq(elems[i], other), ne |-> Ne(elems[i], other)]
    /\ UNCHANGED <<cfgvars, poolvars, mainvars, elems>>

MaxLabelCall(i, order) ==
    /\ ret' = [op |-> "max_label", e |-> i, order |-> order,
               raised |-> max_label(elems[i], order).raised,
               value |-> max_label(elems[i], order).value]
    /\ UNCHANGED <<cfgvars, poolvars, mainvars, elems>>

\* ------------------------------------------------------- specifications
Range(s) == {s[i] : i \in 1..Len(s)}

NoElems ==
    [i \in ElemIds |-> [isCE |-> TRUE, type_name |-> IF i = 1 THEN "svm" ELSE "cnn",
                        uuid |-> i, has |-> FALSE, map |-> EmptyMap]]
NoRet == [op |-> "none"]

InitPool ==
    /\ next_i = 1
    /\ worker = Idle
    /\ results = <<>>
    /\ aborted = FALSE
    /\ issued = {}
    /\ discarded = 0

Init ==
    /\ uuids_list_filepath \in {PathNone, PathEmpty, PathList}
    /\ fs_file \in {[isfile |-> FALSE, content |-> <<>>]}
                  \cup {[isfile |-> TRUE, content |-> c] : c \in SeqsUpTo(Chars, MaxFileLen)}
    /\ descriptor_index \in SUBSET Range(KeyUniverse)
    /\ dim \in 1..MaxDim
    /\ vec_kind = "ok"
    /\ bit_length \in 1..MaxBits
    /\ cores \in 1..MaxCores
    /\ pc = "init"
    /\ iter_source = "none"
    /\ ids = <<>>
    /\ InitPool
    /\ fit_called = FALSE
    /\ fit_arg = <<>>
    /\ outcome = "none"
    /\ elems = NoElems
    /\ ret = NoRet

Next ==
    \/ MainStart
    \/ \E w \in 1..cores : Issue(w)
    \/ \E w \in 1..cores : Complete(w)
    \/ PoolFinish
    \/ FitCall

Spec == Init /\ [][Next]_vars

\* the classification elements alone, the script not started
InitCE ==
    /\ uuids_list_filepath = PathNone
    /\ fs_file = [isfile |-> FALSE, content |-> <<>>]
    /\ descriptor_index = {}
    /\ dim = 1
    /\ vec_kind = "ok"
    /\ bit_length = 1
    /\ cores = 1
    /\ pc = "init"
    /\ iter_source = "none"
    /\ ids = <<>>
    /\ InitPool
    /\ fit_called = FALSE
    /\ fit_arg = <<>>
    /\ outcome = "none"
    /\ elems = NoElems
    /\ ret = NoRet

NextCE ==
    \/ \E i \in ElemIds, m \in {[isNone |-> TRUE, map |-> EmptyMap]}
                                \cup {[isNone |-> FALSE, map |-> x] : x \in MapsOver(Labels)},
          kwds \in MapsOver(KwLabels) : SetClassificationCall(i, m, kwds)
    \/ \E i \in ElemIds : \E other \in Others(i) : EqCall(i, other)
    \/ \E i \in ElemIds : \E order \in Perms(DOMAIN elems[i].map) : MaxLabelCall(i, order)

SpecCE == InitCE /\ [][NextCE]_vars

\* the fitting call alone: main() has extracted the whole index without a
\* failure and is about to call functor.fit
FirstKeys(n) == SubSeq(KeyUniverse, 1, n)

InitFit ==
    /\ uuids_list_filepath = PathNone
    /\ fs_file = [isfile |-> FALSE, content |-> <<>>]
    /\ dim \in 1..MaxFitDim
    /\ vec_kind \in {"ok", "nonfinite", "degenerate"}
    /\ bit_length \in 1..MaxFitBits
    /\ cores = 1
    /\ \E n \in 1..Len(KeyUniverse) :
          /\ descriptor_index = Range(FirstKeys(n))
          /\ ids = FirstKeys(n)
          /\ next_i = n + 1
          /\ issued = 1..n
          /\ results = [i \in 1..n |-> [uuid |-> KeyUniverse[i], dim |-> dim]]
    /\ worker = Idle
    /\ aborted = FALSE
    /\ discarded = 0
    /\ pc = "fit"
    /\ iter_source = "index"
    /\ fit_called = FALSE
    /\ fit_arg = <<>>
    /\ outcome = "none"
    /\ elems = NoElems
    /\ ret = NoRet

NextFit == FitCall

SpecFit == InitFit /\ [][NextFit]_vars

\* ------------------------------------------------------------ properties
\* the multiset of the elements of a sequence
BagOfSeq(s) == [x \in Range(s) |-> Cardinality({i \in 1..Len(s) : s[i] = x})]

\* The lines of a text, told from the positions of its newlines.
Newlines(c) == {i \in 1..Len(c) : c[i] = "\n"}
NumLines(c) ==
    Cardinality(Newlines(c)) + (IF Len(c) > 0 /\ c[Len(c)] # "\n" THEN 1 ELSE 0)
\* position of the j-th newline, 0 for j = 0, the end of the text if none
NthNewline(c, j) ==
    IF j = 0 THEN 0
    ELSE IF j > Cardinality(Newlines(c)) THEN Len(c)
    ELSE CHOOSE p \in Newlines(c) : Cardinality({q \in Newlines(c) : q <= p}) = j
LineAt(c, j) == SubSeq(c, NthNewline(c, j - 1) + 1, NthNewline(c, j))

\* id is line without its leading and trailing whitespace
IsStripOf(id, line) ==
    /\ id = <<>> \/ (id[1] \notin Whitespace /\ id[Len(id)] \notin Whitespace)
    /\ \E a \in 0..Len(line) :
          /\ a + Len(id) <= Len(line)
          /\ SubSeq(line, a + 1, a + Len(id)) = id
          /\ \A i \in 1..Len(line) : (i <= a \/ i > a + Len(id)) => line[i] \in Whitespace

IdsAreFileLines ==
    /\ Len(ids) = NumLines(fs_file.content)
    /\ \A j \in 1..Len(ids) : IsStripOf(ids[j], LineAt(fs_file.content, j))

IdsAreEnumeration ==
    /\ Range(ids) = descriptor_index
    /\ Len(ids) = Cardinality(descriptor_index)

Configured == ~uuids_list_filepath.isNone /\ uuids_list_filepath.path # ""
FileExists == uuids_list_filepath.path = "list.txt" /\ fs_file.isfile

\* C1: if an identifier of the run cannot be fetched, functor.fit is never
\* invoked and receives nothing: the run is still extracting or has failed.
C1_NoFitAfterFetchFailure ==
    /\ (pc # "init" /\ \E i \in 1..Len(ids) : ids[i] \notin descriptor_index)
          => (~fit_called /\ fit_arg = <<>> /\ pc \in {"extract", "failed"})
    /\ aborted => (~fit_called /\ fit_arg = <<>> /\ pc \in {"extract", "failed"})

\* a run that failed with LookupError after part of the corpus was extracted
C1_Witness ==
    /\ pc = "failed"
    /\ outcome = "LookupError"
    /\ Len(results) >= 1
    /\ ~fit_called

\* C2 as stated: the full enumeration is used if and only if no list path is
\* configured, and a configured path always gives the lines of the file.
C2_Original ==
    pc # "init" =>
        /\ (iter_source = "index") <=> ~Configured
        /\ Configured => (iter_source = "file" /\ IdsAreFileLines)

\* C2 amended: the full enumeration is used if and only if no list path is
\* configured or the configured path is not an existing file; when the path
\* names an existing file the identifiers are its stripped lines and the
\* enumeration is not used.
C2_Amended ==
    pc # "init" =>
        /\ (iter_source = "index") <=> ~(Configured /\ FileExists)
        /\ (iter_source = "file") <=> (Configured /\ FileExists)
        /\ iter_source = "index" => IdsAreEnumeration
        /\ iter_source = "file" => IdsAreFileLines

\* a configured path that is not a file: the whole index is extracted
C2_Witness ==
    /\ pc # "init"
    /\ Configured
    /\ ~FileExists
    /\ iter_source = "index"
    /\ Len(ids) >= 2

\* C3: when every fetch succeeds, fit receives, as a multiset, the element of
\* every identifier once per occurrence in ids, and the run does reach fit.
C3_CorpusIsMultisetOfIds ==
    /\ fit_called =>
          BagOfSeq(fit_arg) = BagOfSeq([i \in 1..Len(ids) |-> [uuid |-> ids[i], dim |-> dim]])
    /\ (pc \in {"done", "failed"} /\ \A i \in 1..Len(ids) : ids[i] \in descriptor_index)
          => fit_called

\* fit received a corpus with a repeated identifier in another order than ids
C3_Witness ==
    /\ fit_called
    /\ cores = 2
    /\ Len(fit_arg) = Len(ids)
    /\ Len(ids) >= 3
    /\ \E i, j \in 1..Len(ids) : i # j /\ ids[i] = ids[j]
    /\ \E i \in 1..Len(ids) : fit_arg[i].uuid # ids[i]

\* C4: once a worker failure has aborted the pipeline no fetch is issued, no
\* result is merged and fit is not invoked.
C4_AbortStopsPipeline ==
    [][aborted => (issued' = issued /\ results' = results /\ ~fit_called'
                   /\ fit_arg' = <<>>)]_vars

\* an aborted run that dropped an in-flight result and left identifiers unissued
C4_Witness ==
    /\ pc = "failed"
    /\ aborted
    /\ discarded >= 1
    /\ next_i <= Len(ids)
    /\ ~fit_called

\* C5 as stated: fit raises ConfigurationError whenever k > d and
\* InsufficientDataError whenever N < k, and produces no model in either case.
C5_Original ==
    fit_called =>
        /\ bit_length > dim => outcome = "ConfigurationError"
        /\ Len(fit_arg) < bit_length => outcome = "InsufficientDataError"
        /\ (bit_length > dim \/ Len(fit_arg) < bit_length) => pc = "failed"

FiniteCorpus == vec_kind # "nonfinite" \/ Len(fit_arg) = 0

\* C5 amended: when k > d or N < k fit produces no model; on a corpus of
\* finite vectors the error is ConfigurationError or InsufficientDataError,
\* it is ConfigurationError when k > d is the only failure condition that
\* holds and InsufficientDataError when N < k holds and k <= d.
C5_Amended ==
    fit_called =>
        /\ (bit_length > dim \/ Len(fit_arg) < bit_length)
              => (pc = "failed" /\ outcome # "model")
        /\ (FiniteCorpus /\ (bit_length > dim \/ Len(fit_arg) < bit_length))
              => outcome \in {"ConfigurationError", "InsufficientDataError"}
        /\ (bit_length > dim /\ Len(fit_arg) >= bit_length /\ vec_kind = "ok")
              => outcome = "ConfigurationError"
        /\ (Len(fit_arg) < bit_length /\ bit_length <= dim /\ FiniteCorpus)
              => outcome = "InsufficientDataError"

\* fit refused a bit length above the dimension on a large enough corpus
C5_Witness ==
    /\ fit_called
    /\ bit_length > dim
    /\ Len(fit_arg) >= bit_length
    /\ vec_kind = "ok"
    /\ outcome = "ConfigurationError"
    /\ pc = "failed"

LastIsCE == ret.other.isCE
SameClassification(a, b) ==
    \/ ~a.has /\ ~b.has
    \/ a.has /\ b.has /\ a.map = b.map

\* C6: a == b holds exactly when both elements have the same map or both
\* have none, whatever their type_name and uuid; a != b is its negation; a
\* comparison with something that is not an element is False.
C6_EqualityOnClassificationOnly ==
    ret.op = "eq" =>
        /\ ret.eq = (LastIsCE /\ SameClassification(elems[ret.e], ret.other))
        /\ ret.ne = ~ret.eq

\* two elements of different type_name and uuid with the same map are equal
C6_Witness ==
    /\ ret.op = "eq"
    /\ LastIsCE
    /\ ret.other.uuid # elems[ret.e].uuid
    /\ ret.other.type_name # elems[ret.e].type_name
    /\ elems[ret.e].has
    /\ ret.eq

\* C7: with a classification set max_label returns a label of maximal
\* confidence, and it raises NoClassificationError only when none is set.
C7_MaxLabel ==
    ret.op = "max_label" =>
        LET e == elems[ret.e]
        IN  /\ e.has => /\ ~ret.raised
                        /\ ret.value \in DOMAIN e.map
                        /\ \A l \in DOMAIN e.map : e.map[ret.value] >= e.map[l]
            /\ ret.raised => ~e.has

\* C8: the base set_classification raises ValueError exactly when m and the
\* keywords give no label; otherwise it returns the labels of both, a label
\* given twice with the keyword's confidence.
C8_SetClassification ==
    ret.op = "set_classification" =>
        LET mLabels == IF ret.m.isNone THEN {} ELSE DOMAIN ret.m.map
        IN  /\ ret.raised <=> (mLabels = {} /\ DOMAIN ret.kwds = {})
            /\ ~ret.raised =>
                  /\ DOMAIN ret.value = mLabels \cup DOMAIN ret.kwds
                  /\ \A l \in DOMAIN ret.kwds : ret.value[l] = ret.kwds[l]
                  /\ \A l \in mLabels \ DOMAIN ret.kwds : ret.value[l] = ret.m.map[l]

\* a label given in m and as a keyword with different confidences
C8_Witness ==
    /\ ret.op = "set_classification"
    /\ ~ret.raised
    /\ ~ret.m.isNone
    /\ \E l \in DOMAIN ret.kwds \cap DOMAIN ret.m.map : ret.kwds[l] # ret.m.map[l]
    /\ DOMAIN ret.m.map \ DOMAIN ret.kwds # {}

\* C9: with a list file there is one identifier per line, in file order,
\* equal to the stripped line, blank lines included, and the identifiers are
\* handed to the fetch in that order, none skipped.
C9_OneIdPerLine ==
    iter_source = "file" =>
          /\ IdsAreFileLines
          /\ issued = 1..(next_i - 1)
          /\ (pc \in {"fit", "done", "failed"} /\ ~aborted) => issued = 1..Len(ids)

\* a blank line gave the empty identifier, which was fetched with success
C9_Witness ==
    /\ iter_source = "file"
    /\ \E j \in issued : ids[j] = <<>> /\ LineAt(fs_file.content, j) # <<>>
    /\ \E j \in issued : ids[j] # <<>>
    /\ fit_called
    /\ \E i \in 1..Len(fit_arg) : fit_arg[i].uuid = <<>>
====
